---- MODULE Spec2Model ----
(***************************************************************************)
(* Model of the CSV -> template-shaped JSON builders of this repository:   *)
(*   V1  src/build_json_gui.py     TemplateForms + JSONBuilder.build       *)
(*   V2  src/build_json_gui_V2.py  build_from_files                        *)
(*                                                                         *)
(* Python strings are modelled as sequences of one-character strings, so   *)
(* that str.isdigit, int(), str(), strip, split and the regular-expression *)
(* steps of _normalize are computed and not assumed.  Python dicts are     *)
(* modelled as sequences of <<key, value>> pairs (insertion ordered).      *)
(* Python objects that are shared by reference (form nodes) live in a heap *)
(* and are referred to by their index.                                     *)
(***************************************************************************)
EXTENDS Integers, Sequences, FiniteSets, TLC

(***************************************************************************)
(* Python string primitives                                                *)
(***************************************************************************)
Digits == <<"0", "1", "2", "3", "4", "5", "6", "7", "8", "9">>

UpperChars == <<"A", "B", "C", "D", "E", "F", "G", "H", "I", "J", "K", "L", "M",
                "N", "O", "P", "Q", "R", "S", "T", "U", "V", "W", "X", "Y", "Z">>

LowerChars == <<"a", "b", "c", "d", "e", "f", "g", "h", "i", "j", "k", "l", "m",
                "n", "o", "p", "q", "r", "s", "t", "u", "v", "w", "x", "y", "z">>

WhiteChars == {" ", "\n", "\t"}

Range(s) == {s[i] : i \in 1..Len(s)}

DigitSet == Range(Digits)

UpperSet == Range(UpperChars)

LowerSet == Range(LowerChars)

IsDigitChar(c) == c \in DigitSet

\* the value of each digit character
DigitValOf == [c \in DigitSet |-> (CHOOSE i \in 1..10 : Digits[i] = c) - 1]

DigitVal(c) == DigitValOf[c]

\* str.isdigit(): non-empty and every character a digit
IsDigit(s) == Len(s) > 0 /\ \A i \in 1..Len(s) : IsDigitChar(s[i])

\* int(s) for an all-digit string
RECURSIVE IntOf(_)
IntOf(s) == IF Len(s) = 0 THEN 0
            ELSE 10 * IntOf(SubSeq(s, 1, Len(s) - 1)) + DigitVal(s[Len(s)])

\* str(n) for a natural number
RECURSIVE StrOf(_)
StrOf(n) == IF n < 10 THEN <<Digits[n + 1]>>
            ELSE StrOf(n \div 10) \o <<Digits[(n % 10) + 1]>>

\* f"{n:02d}" for a natural number
Pad2(n) == IF n < 10 THEN <<"0">> \o StrOf(n) ELSE StrOf(n)

RECURSIVE LStrip(_)
LStrip(s) == IF Len(s) > 0 /\ s[1] \in WhiteChars THEN LStrip(Tail(s)) ELSE s

RECURSIVE RStrip(_)
RStrip(s) == IF Len(s) > 0 /\ s[Len(s)] \in WhiteChars
             THEN RStrip(SubSeq(s, 1, Len(s) - 1)) ELSE s

\* str.strip()
Strip(s) == RStrip(LStrip(s))

\* str.strip("-")
RECURSIVE StripChar(_, _)
StripChar(s, c) ==
    IF Len(s) > 0 /\ s[1] = c THEN StripChar(Tail(s), c)
    ELSE IF Len(s) > 0 /\ s[Len(s)] = c THEN StripChar(SubSeq(s, 1, Len(s) - 1), c)
    ELSE s

\* str.lower() on one character
LowerOf == [c \in UpperSet |-> LowerChars[CHOOSE i \in 1..26 : UpperChars[i] = c]]

LowerChar(c) == IF c \in UpperSet THEN LowerOf[c] ELSE c

Lower(s) == [i \in 1..Len(s) |-> LowerChar(s[i])]

\* s.replace(a, b) for single characters a, b
ReplaceChar(s, a, b) == [i \in 1..Len(s) |-> IF s[i] = a THEN b ELSE s[i]]

\* t in s  (substring test)
Contains(s, t) ==
    \E i \in 1..(Len(s) - Len(t) + 1) : SubSeq(s, i, i + Len(t) - 1) = t

\* s.split(c): the pieces between occurrences of the character c
RECURSIVE SplitAcc(_, _, _)
SplitAcc(s, c, cur) ==
    IF Len(s) = 0 THEN <<cur>>
    ELSE IF s[1] = c THEN <<cur>> \o SplitAcc(Tail(s), c, <<>>)
    ELSE SplitAcc(Tail(s), c, Append(cur, s[1]))

Split(s, c) == SplitAcc(s, c, <<>>)

\* sequence filter keeping order
RECURSIVE SelectNonEmpty(_)
SelectNonEmpty(ss) ==
    IF Len(ss) = 0 THEN <<>>
    ELSE IF Len(ss[1]) > 0 THEN <<ss[1]>> \o SelectNonEmpty(Tail(ss))
    ELSE SelectNonEmpty(Tail(ss))


(***************************************************************************)
(* String literals of the two programs                                     *)
(***************************************************************************)
sRefid == <<"r", "e", "f", "i", "d">>

sSpdId == <<"s", "p", "d", "_", "i", "d">>

sSafetyId == <<"s", "a", "f", "e", "t", "y", "_", "i", "d">>

USER_NAME == <<"K", "i", "m", "K", "w", "a", "n", "g">>

sSPD == <<"S", "t", "u", "d", "y", " ", "P", "a", "r", "a", "m", "e", "t", "e",
    "r", "s", " ", "a", "n", "d", " ", "D", "e", "m", "o", "g", "r", "a", "p",
    "h", "i", "c", "s">>

sSafety == <<"S", "a", "f", "e", "t", "y">>

sPerf == <<"P", "e", "r", "f", "o", "r", "m", "a", "n", "c", "e", " ", "(",
    "d", "i", "s", "c", "r", "e", "t", "e", ")">>

sFollowup == <<"F", "o", "l", "l", "o", "w", "-", "u", "p", " ", "S", "u", "b",
    "f", "o", "r", "m">>

sHarms == <<"H", "a", "r", "m", "s">>

sArticleIdentifier == <<"A", "r", "t", "i", "c", "l", "e", " ", "I", "d", "e",
    "n", "t", "i", "f", "i", "e", "r">>

sAssociatedCERs == <<"A", "s", "s", "o", "c", "i", "a", "t", "e", "d", " ",
    "C", "E", "R", "s">>

sDatasetLabel == <<"D", "a", "t", "a", "s", "e", "t", " ", "L", "a", "b", "e",
    "l">>

sFormName == <<"F", "o", "r", "m", " ", "N", "a", "m", "e">>

sAdverseEvent == <<"A", "d", "v", "e", "r", "s", "e", " ", "E", "v", "e", "n",
    "t">>

sAdverseEventLc == <<"a", "d", "v", "e", "r", "s", "e", "_", "e", "v", "e",
    "n", "t">>

sPerfEndpoint == <<"P", "e", "r", "f", " ", "D", "i", "s", "c", "r", "e", "t",
    "e", " ", "E", "n", "d", "p", "o", "i", "n", "t">>

sPerfEndpointLc == <<"p", "e", "r", "f", " ", "d", "i", "s", "c", "r", "e",
    "t", "e", " ", "e", "n", "d", "p", "o", "i", "n", "t">>

sPerfTimePoint == <<"P", "e", "r", "f", " ", "D", "i", "s", "c", "r", "e", "t",
    "e", " ", "T", "i", "m", "e", " ", "P", "o", "i", "n", "t">>

sPerfTimePointLc == <<"p", "e", "r", "f", " ", "d", "i", "s", "c", "r", "e",
    "t", "e", " ", "t", "i", "m", "e", " ", "p", "o", "i", "n", "t">>

sText == <<"T", "e", "x", "t">>

sRadio == <<"R", "a", "d", "i", "o">>

sCheckbox == <<"C", "h", "e", "c", "k", "b", "o", "x">>

sTextLc == <<"t", "e", "x", "t">>

sRadioLc == <<"r", "a", "d", "i", "o">>

sCheckboxLc == <<"c", "h", "e", "c", "k", "b", "o", "x">>

tExtraction == <<"e", "x", "t", "r", "a", "c", "t", "i", "o", "n">>

tStudy == <<"s", "t", "u", "d", "y">>

tDemographics == <<"d", "e", "m", "o", "g", "r", "a", "p", "h", "i", "c",
    "s">>

tSafety == <<"s", "a", "f", "e", "t", "y">>

tPerformance == <<"p", "e", "r", "f", "o", "r", "m", "a", "n", "c", "e">>

tDiscrete == <<"d", "i", "s", "c", "r", "e", "t", "e">>

tHarms == <<"h", "a", "r", "m", "s">>

tFollow == <<"f", "o", "l", "l", "o", "w">>

pSpd == <<"s", "p", "d", "_">>

pPerf == <<"p", "e", "r", "f", "_">>

pSafety == <<"s", "a", "f", "e", "t", "y", "_">>

pHarms == <<"h", "a", "r", "m", "s", "_">>

pFollowup == <<"f", "o", "l", "l", "o", "w", "u", "p", "_">>

sNlFollowup == <<"\n", "F", "o", "l", "l", "o", "w", "-", "u", "p">>


\* the three typographic quotes _normalize unifies, one token per character
RSQuo == "&rsquo;"

LDQuo == "&ldquo;"

RDQuo == "&rdquo;"

(***************************************************************************)
(* V2 header normalizer: _normalize, _index_by_normalized                  *)
(***************************************************************************)
\* re.sub(r"\s+", " ", s)
\* every run of whitespace becomes one space: while a whitespace character
\* follows another, drop it; then every whitespace character is a space
RECURSIVE CollapseWs(_)
CollapseWs(s) ==
    LET dbl == {i \in 2..Len(s) : s[i] \in WhiteChars /\ s[i - 1] \in WhiteChars}
    IN  IF dbl = {}
        THEN [i \in 1..Len(s) |-> IF s[i] \in WhiteChars THEN " " ELSE s[i]]
        ELSE LET d == CHOOSE i \in dbl : TRUE
             IN  CollapseWs(SubSeq(s, 1, d - 1) \o SubSeq(s, d + 1, Len(s)))

WordChars == LowerSet \cup UpperSet \cup DigitSet \cup {"_"}

\* the characters kept by re.sub(r"[^\w%()/?\-\s\.]", "", s)
KeptChars == WordChars \cup {"%", "(", ")", "/", "?", "-", "."} \cup WhiteChars

IsKeptChar(c) == c \in KeptChars

KeepAllowed(s) == SelectSeq(s, IsKeptChar)

NormalizeText(s) ==
    LET s1 == Lower(Strip(s))
        s2 == CollapseWs(s1)
        s3 == ReplaceChar(ReplaceChar(ReplaceChar(s2, RSQuo, "'"), LDQuo, "\""), RDQuo, "\"")
        s4 == KeepAllowed(s3)
        s5 == ReplaceChar(s4, "_", " ")
    IN  Strip(CollapseWs(s5))

\* the form names, question texts and column headers of the inputs below;
\* their normal forms are computed once
sExtraction == <<"E", "x", "t", "r", "a", "c", "t", "i", "o", "n">>

sVisit == <<"V", "i", "s", "i", "t">>

KnownTexts == {sExtraction, sSPD, sSafety, sPerf, sFollowup, sHarms,
               sArticleIdentifier, sAssociatedCERs, sDatasetLabel, sFormName,
               sAdverseEvent, sAdverseEventLc, sRefid, sSpdId, sSafetyId, sVisit}

NormalFormOf == [s \in KnownTexts |-> NormalizeText(s)]

_normalize(s) == IF s \in KnownTexts THEN NormalFormOf[s] ELSE NormalizeText(s)

(***************************************************************************)
(* Python dicts as insertion-ordered sequences of <<key, value>> pairs      *)
(***************************************************************************)
DictKeys(d) == {d[i][1] : i \in 1..Len(d)}

DictHas(d, k) == \E i \in 1..Len(d) : d[i][1] = k

DictGet(d, k) == d[CHOOSE i \in 1..Len(d) : d[i][1] = k][2]

\* d.get(k, dflt)
DictGetOr(d, k, dflt) == IF DictHas(d, k) THEN DictGet(d, k) ELSE dflt

\* d[k] = v : an existing key keeps its position, a new key is appended
DictSet(d, k, v) ==
    IF DictHas(d, k)
    THEN [i \in 1..Len(d) |-> IF d[i][1] = k THEN <<k, v>> ELSE d[i]]
    ELSE Append(d, <<k, v>>)

\* d.setdefault(k, []).append(v)
DictAppendTo(d, k, v) ==
    IF DictHas(d, k)
    THEN [i \in 1..Len(d) |-> IF d[i][1] = k THEN <<k, Append(d[i][2], v)>> ELSE d[i]]
    ELSE Append(d, <<k, <<v>>>>)

\* {_normalize(h): h for h in headers}
RECURSIVE IndexAcc(_, _)
IndexAcc(headers, acc) ==
    IF Len(headers) = 0 THEN acc
    ELSE IndexAcc(Tail(headers), DictSet(acc, _normalize(headers[1]), headers[1]))

_index_by_normalized(headers) == IndexAcc(headers, <<>>)

(***************************************************************************)
(* Data entries.  A question/answer entry is a record                      *)
(*   [question |-> string, type |-> string, response |-> dict]             *)
(* whose response is a dict with the keys "text" and "answer" (a template  *)
(* may leave one of them out).  An optional value is <<>> (None) or <<v>>. *)
(***************************************************************************)
None == <<>>

Some(v) == <<v>>

EmptyStr == <<>>

RespText(e) == DictGetOr(e.response, "text", EmptyStr)

RespAnswer(e) == DictGetOr(e.response, "answer", EmptyStr)

\* resp.setdefault(k, v)
DictSetDefault(d, k, v) == IF DictHas(d, k) THEN d ELSE Append(d, <<k, v>>)

(***************************************************************************)
(* V1 form populator: TemplateForms.question_types and                     *)
(* JSONBuilder._populate_form_from_row                                     *)
(***************************************************************************)
\* qmap[q['question']] = q['type'] for every entry of the prototype's data
RECURSIVE QTypesAcc(_, _)
QTypesAcc(data, qmap) ==
    IF Len(data) = 0 THEN qmap
    ELSE QTypesAcc(Tail(data), DictSet(qmap, data[1].question, data[1].type))

question_types(form_proto) == QTypesAcc(form_proto.data, <<>>)

\* [x.strip() for x in val.replace(';', ',').split(',') if x.strip()]
CerItems(val) ==
    LET parts == Split(ReplaceChar(val, ";", ","), ",")
    IN  SelectNonEmpty([i \in 1..Len(parts) |-> Strip(parts[i])])

\* the entries one (question, type) pair of qtypes appends to form['data']
V1EntriesFor(q_text, q_type, row) ==
    IF DictHas(row, q_text)
    THEN LET val == DictGet(row, q_text) IN
         IF q_text = sAssociatedCERs
         THEN LET items == CerItems(val) IN
              IF Len(items) = 0
              THEN << [question |-> q_text, type |-> q_type,
                       response |-> << <<"text", EmptyStr>>, <<"answer", EmptyStr>> >>] >>
              ELSE [i \in 1..Len(items) |->
                       [question |-> q_text, type |-> q_type,
                        response |-> << <<"text", EmptyStr>>, <<"answer", items[i]>> >>]]
         ELSE << [question |-> q_text, type |-> q_type,
                  response |-> IF q_type \in {sRadio, sCheckbox}
                               THEN << <<"answer", val>>, <<"text", EmptyStr>> >>
                               ELSE << <<"answer", EmptyStr>>, <<"text", val>> >>] >>
    ELSE << [question |-> q_text, type |-> q_type,
             response |-> << <<"answer", EmptyStr>>, <<"text", EmptyStr>> >>] >>

RECURSIVE V1DataAcc(_, _)
V1DataAcc(qtypes, row) ==
    IF Len(qtypes) = 0 THEN <<>>
    ELSE V1EntriesFor(qtypes[1][1], qtypes[1][2], row) \o V1DataAcc(Tail(qtypes), row)

\* a variant that gives every populated node the level of a first-level subform
PopulateAsSubform(form_proto, row) ==
    [form_proto EXCEPT !.level = 1,
                       !.is_subform = 1,
                       !.user = USER_NAME,
                       !.data = V1DataAcc(question_types(form_proto), row)]

\* the node _populate_form_from_row returns: a deep clone of the prototype
\* with user and data replaced (child_forms is the clone's own, by value)
_populate_form_from_row(form_proto, row) ==
    [form_proto EXCEPT !.user = USER_NAME,
                       !.data = V1DataAcc(question_types(form_proto), row)]

(***************************************************************************)
(* V2 form populator: _set_response and _populate_form_data_from_row       *)
(***************************************************************************)
\* "" if value is None else str(value)
StrOrEmpty(value) == IF value = None THEN EmptyStr ELSE value[1]

_set_response(datum, value) ==
    LET dtype == Lower(Strip(datum.type))
        resp  == datum.response
    IN  IF dtype = sTextLc
        THEN [datum EXCEPT !.response =
                DictSetDefault(DictSet(resp, "text", StrOrEmpty(value)), "answer", EmptyStr)]
        ELSE IF dtype \in {sRadioLc, sCheckboxLc}
        THEN [datum EXCEPT !.response =
                DictSetDefault(DictSet(resp, "answer", StrOrEmpty(value)), "text", EmptyStr)]
        ELSE [datum EXCEPT !.response =
                DictSet(DictSet(resp, "text", StrOrEmpty(value)), "answer", StrOrEmpty(value))]

\* the value looked up for one datum (None when nothing matches)
V2ValueFor(datum, row, header_index, spd_label_override) ==
    LET norm_q == _normalize(datum.question) IN
    IF spd_label_override # None
       /\ norm_q \in {_normalize(sDatasetLabel), _normalize(sFormName)}
    THEN Some(spd_label_override[1])
    ELSE IF DictHas(header_index, norm_q)
            /\ DictHas(row, DictGet(header_index, norm_q))
         THEN Some(DictGet(row, DictGet(header_index, norm_q)))
         ELSE None

\* form_node after _populate_form_data_from_row has rewritten its data in place
_populate_form_data_from_row(form_node, row, header_index, spd_label_override) ==
    [form_node EXCEPT !.data =
        [i \in 1..Len(form_node.data) |->
            _set_response(form_node.data[i],
                          V2ValueFor(form_node.data[i], row, header_index,
                                     spd_label_override))]]

(***************************************************************************)
(* Form nodes.  A node is a record                                         *)
(*   [form, key, level, is_subform, user, data, child_forms]               *)
(* In the template a child_forms dict holds its child nodes by value; in   *)
(* the output under construction the dicts that the builders fill hold     *)
(* references (heap indices) to the nodes attached to them.                *)
(***************************************************************************)
Max(S) == CHOOSE x \in S : \A y \in S : y <= x

\* _collect_all_numeric_keys on a data_sets / child_forms dict and below:
\* every key that is all digits, as an integer, in traversal order
RECURSIVE CollectForms(_)
CollectForms(forms) ==
    IF Len(forms) = 0 THEN <<>>
    ELSE (IF IsDigit(forms[1][1]) THEN <<IntOf(forms[1][1])>> ELSE <<>>)
         \o CollectForms(forms[1][2].child_forms)
         \o CollectForms(Tail(forms))

\* the other dicts of the template (the record itself, the nodes, the data
\* entries and their responses) have no key that is all digits
_collect_all_numeric_keys(template_master) == CollectForms(template_master.data_sets)

\* _find_form_id_by_name: Some(id of the first form whose normalized name
\* contains every term), or None
RECURSIVE _find_form_id_by_name(_, _)
_find_form_id_by_name(forms_dict, contains_terms) ==
    IF Len(forms_dict) = 0 THEN None
    ELSE LET norm == _normalize(forms_dict[1][2].form) IN
         IF \A term \in contains_terms : Contains(norm, term)
         THEN Some(forms_dict[1][1])
         ELSE _find_form_id_by_name(Tail(forms_dict), contains_terms)

\* the last child whose stripped form name equals name (V1 loops without break)
RECURSIVE LastByName(_, _, _)
LastByName(cf, name, found) ==
    IF Len(cf) = 0 THEN found
    ELSE LastByName(Tail(cf), name,
                    IF Strip(cf[1][2].form) = name THEN Some(cf[1][2]) ELSE found)

\* the first child whose stripped form name equals name (loop with break)
RECURSIVE FirstByName(_, _)
FirstByName(cf, name) ==
    IF Len(cf) = 0 THEN None
    ELSE IF Strip(cf[1][2].form) = name THEN Some(cf[1][2])
    ELSE FirstByName(Tail(cf), name)

NoProtos == [extraction |-> None, spd |-> None, safety |-> None,
             perf |-> None, harms |-> None, followup |-> None]

\* why TemplateForms.__init__ raises on this template object, or "" if it does not
V1TemplateError(template_obj) ==
    IF template_obj.shape \notin {"list", "dict"} THEN "Unexpected template format"
    ELSE IF Len(template_obj.root.data_sets) = 0 THEN "Template does not contain data_sets"
    ELSE ""

\* the prototypes TemplateForms.__init__ extracts
TemplateForms(template_obj) ==
    LET ds_dict    == template_obj.root.data_sets
        extraction == ds_dict[1][2]
        cf         == extraction.child_forms
        spd        == LastByName(cf, sSPD, None)
        safety     == LastByName(cf, sSafety, None)
        perf       == LastByName(cf, sPerf, None)
        fu_top     == LastByName(cf, sFollowup, None)
        fu_spd     == IF spd # None THEN FirstByName(spd[1].child_forms, sFollowup)
                      ELSE None
    IN  [extraction |-> Some(extraction),
         spd        |-> spd,
         safety     |-> safety,
         perf       |-> perf,
         harms      |-> IF safety # None THEN FirstByName(safety[1].child_forms, sHarms)
                        ELSE None,
         followup   |-> IF fu_top # None THEN fu_top
                        ELSE IF fu_spd # None
                             THEN Some(fu_spd[1])
                             ELSE None]

\* an id found by name that Python's "if id and ..." accepts: the node it names
ProtoAt(forms_dict, id) ==
    IF id = None \/ id[1] = EmptyStr THEN None ELSE Some(DictGet(forms_dict, id[1]))

\* why build_from_files raises while it discovers the template, or "" if it does not
V2TemplateError(template_obj) ==
    IF template_obj.shape # "list"
    THEN "Template must be a JSON array with at least 1 record."
    ELSE IF Len(template_obj.root.data_sets) = 0
    THEN "Template missing 'data_sets' dictionary with at least one dataset."
    ELSE LET extraction_id == _find_form_id_by_name(template_obj.root.data_sets, {tExtraction})
         IN  IF extraction_id = None
             THEN "Could not find an 'Extraction' dataset in template"
             ELSE IF _find_form_id_by_name(
                        DictGet(template_obj.root.data_sets, extraction_id[1]).child_forms,
                        {tStudy, tDemographics}) = None
             THEN "Could not find a 'Study and Patient Demographics' form under Extraction"
             ELSE ""

\* the template nodes build_from_files keeps as blueprints
V2Templates(template_obj) ==
    LET ds_dict             == template_obj.root.data_sets
        extraction_id       == _find_form_id_by_name(ds_dict, {tExtraction})
        extraction_template == DictGet(ds_dict, extraction_id[1])
        extraction_children == extraction_template.child_forms
        spd_id              == _find_form_id_by_name(extraction_children, {tStudy, tDemographics})
        spd_template        == DictGet(extraction_children, spd_id[1])
        spd_children        == spd_template.child_forms
        safety              == ProtoAt(spd_children,
                                       _find_form_id_by_name(spd_children, {tSafety}))
        safety_children     == IF safety = None THEN <<>> ELSE safety[1].child_forms
    IN  [extraction |-> Some(extraction_template),
         spd        |-> Some(spd_template),
         safety     |-> safety,
         perf       |-> ProtoAt(spd_children,
                                _find_form_id_by_name(spd_children, {tPerformance, tDiscrete})),
         harms      |-> ProtoAt(safety_children,
                                _find_form_id_by_name(safety_children, {tHarms})),
         followup   |-> ProtoAt(spd_children,
                                _find_form_id_by_name(spd_children, {tFollow}))]

\* the seed of the IdFactory: the largest all-digit key of the template
DefaultSeed == 10000

V2StartFrom(template_obj) ==
    LET all_numeric_keys == _collect_all_numeric_keys(template_obj.root)
    IN  IF Len(all_numeric_keys) > 0 THEN Max(Range(all_numeric_keys)) ELSE DefaultSeed

\* the value JSONBuilder.__init__ gives next_id
V1StartFrom == 10000

(***************************************************************************)
(* Row grouping                                                            *)
(* A CSV is [supplied, headers, rows]; a row is a dict header -> value.    *)
(* A grouping is a dict from the tuple of linkage values to the rows that  *)
(* carry it.                                                               *)
(***************************************************************************)
\* r.get(col, '').strip()
Cell(r, col) == Strip(DictGetOr(r, col, EmptyStr))

\* V1: for r in rows: if key(r) is kept: by_key.setdefault(key(r), []).append(r)
RECURSIVE V1GroupAcc(_, _, _, _)
V1GroupAcc(rows, cols, skipEmpty, acc) ==
    IF Len(rows) = 0 THEN acc
    ELSE LET r  == rows[1]
             kv == [i \in 1..Len(cols) |-> Cell(r, cols[i])]
         IN  V1GroupAcc(Tail(rows), cols, skipEmpty,
                        IF skipEmpty /\ kv[1] = EmptyStr THEN acc
                        ELSE DictAppendTo(acc, kv, r))

\* the five groupings JSONBuilder.build computes
V1Grouping(c) ==
    [spd    |-> V1GroupAcc(c.spd.rows, <<sRefid>>, TRUE, <<>>),
     safety |-> V1GroupAcc(c.safety.rows, <<sRefid, sSpdId>>, FALSE, <<>>),
     harms  |-> V1GroupAcc(c.harms.rows, <<sSafetyId>>, TRUE, <<>>),
     perf   |-> V1GroupAcc(c.perf.rows, <<sRefid, sSpdId>>, FALSE, <<>>),
     follow |-> V1GroupAcc(c.follow.rows, <<sRefid, sSpdId>>, FALSE, <<>>)]

\* on_build's require(cols, rows, name): raises when the CSV has rows and the
\* first row lacks one of the columns
RequireRaises(cols, c) ==
    Len(c.rows) > 0 /\ \E i \in 1..Len(cols) : cols[i] \notin DictKeys(c.rows[1])

\* the four calls of require in on_build
V1RequireRaises(c) ==
    \/ RequireRaises(<<sRefid, sSpdId>>, c.spd)
    \/ RequireRaises(<<sRefid, sSpdId>>, c.safety)
    \/ RequireRaises(<<sRefid, sSpdId>>, c.perf)
    \/ RequireRaises(<<sSafetyId>>, c.harms)

\* V2: df.groupby(keys, dropna=False, sort=False), groups in first-seen order
RECURSIVE V2GroupAcc(_, _, _)
V2GroupAcc(rows, keys, acc) ==
    IF Len(rows) = 0 THEN acc
    ELSE V2GroupAcc(Tail(rows), keys,
                    DictAppendTo(acc, [i \in 1..Len(keys) |-> DictGet(rows[1], keys[i])],
                                 rows[1]))

\* group_df raises when a key column is absent from a supplied CSV
GroupDfRaises(df, keys) ==
    df.supplied /\ \E i \in 1..Len(keys) : keys[i] \notin Range(df.headers)

group_df(df, keys) == IF ~df.supplied THEN <<>> ELSE V2GroupAcc(df.rows, keys, <<>>)

V2GroupingRaises(c) ==
    \/ GroupDfRaises(c.spd, <<sRefid>>)
    \/ GroupDfRaises(c.safety, <<sRefid, sSpdId>>)
    \/ GroupDfRaises(c.perf, <<sRefid, sSpdId>>)
    \/ GroupDfRaises(c.harms, <<sRefid, sSpdId, sSafetyId>>)
    \/ GroupDfRaises(c.follow, <<sRefid, sSpdId>>)

V2Grouping(c) ==
    [spd    |-> group_df(c.spd, <<sRefid>>),
     safety |-> group_df(c.safety, <<sRefid, sSpdId>>),
     harms  |-> group_df(c.harms, <<sRefid, sSpdId, sSafetyId>>),
     perf   |-> group_df(c.perf, <<sRefid, sSpdId>>),
     follow |-> group_df(c.follow, <<sRefid, sSpdId>>)]

NoGrouping == [spd |-> <<>>, safety |-> <<>>, harms |-> <<>>, perf |-> <<>>, follow |-> <<>>]

(***************************************************************************)
(* Ordering of the SPD rows of one refid in V2                             *)
(***************************************************************************)
\* the characters of the inputs in code-point order
CodeOrder == <<"\t", "\n", " ", "%", "(", ")", "-", ".", "/">> \o Digits \o <<"?">>
             \o UpperChars \o <<"_">> \o LowerChars

CharCode(c) == CHOOSE i \in 1..Len(CodeOrder) : CodeOrder[i] = c

\* Python's s < t on strings
RECURSIVE StrLess(_, _)
StrLess(s, t) ==
    IF Len(t) = 0 THEN FALSE
    ELSE IF Len(s) = 0 THEN TRUE
    ELSE IF s[1] = t[1] THEN StrLess(Tail(s), Tail(t))
    ELSE CharCode(s[1]) < CharCode(t[1])

\* the sort key of line 314: int(v) if str(v).isdigit() else v
SortKeyLess(a, b) ==
    IF IsDigit(a) /\ IsDigit(b) THEN IntOf(a) < IntOf(b) ELSE StrLess(a, b)

\* comparing an int key with a str key raises TypeError
SortRaises(rows) ==
    \E i, j \in 1..Len(rows) :
        IsDigit(DictGet(rows[i], sSpdId)) /\ ~IsDigit(DictGet(rows[j], sSpdId))

\* insertion into a list sorted by spd_id, after the rows that are not greater
RECURSIVE InsertSorted(_, _)
InsertSorted(sorted, r) ==
    IF Len(sorted) = 0 THEN <<r>>
    ELSE IF SortKeyLess(DictGet(r, sSpdId), DictGet(sorted[1], sSpdId))
         THEN <<r>> \o sorted
         ELSE <<sorted[1]>> \o InsertSorted(Tail(sorted), r)

\* rows.sort_values("__spd_id_sort__", kind="stable")
RECURSIVE SortAcc(_, _)
SortAcc(rows, sorted) ==
    IF Len(rows) = 0 THEN sorted
    ELSE SortAcc(Tail(rows), InsertSorted(sorted, rows[1]))

SortBySpdId(rows) == SortAcc(rows, <<>>)

(***************************************************************************)
(* Bounds and input sets                                                   *)
(***************************************************************************)
MaxSpdRows == 2

MaxSafetyRows == 2

MaxHarmsRows == 2

MaxPerfRows == 2

MaxFollowRows == 1

SeqsUpTo(S, n) == UNION {[1..k -> S] : k \in 0..n}

RefIds == {EmptyStr, <<"1">>, <<"2">>}

SpdIds == {EmptyStr, <<"2">>, <<"1", "0">>}

SpdHeaders == <<sRefid, sSpdId>>

SafetyHeaders == <<sRefid, sSpdId, sSafetyId, sAdverseEvent>>

HarmsHeaders == <<sRefid, sSpdId, sSafetyId>>

PerfHeaders == <<sRefid, sSpdId>>

FollowHeaders == <<sRefid, sSpdId, sVisit>>

\* a row: the dict that pairs the headers with the values
MkRow(headers, values) == [i \in 1..Len(headers) |-> <<headers[i], values[i]>>]

\* every spd_id under refid "1", one spd_id under the other refids
SpdRowSet == {MkRow(SpdHeaders, <<rs[1], rs[2]>>) :
                rs \in {x \in RefIds \X SpdIds : x[1] = <<"1">> \/ x[2] = <<"2">>}}

SafetyRowSet == {MkRow(SafetyHeaders, <<r, <<"2">>, <<"9">>, <<"A", "E">>>>) : r \in {<<"1">>, <<"2">>}}

HarmsRowSet == {MkRow(HarmsHeaders, <<<<"1">>, <<"2">>, sid>>) : sid \in {<<"9">>, EmptyStr}}

PerfRowSet == {MkRow(PerfHeaders, <<<<"1">>, <<"2">>>>)}

FollowRowSet == {MkRow(FollowHeaders, <<<<"1">>, <<"2">>, <<"v">>>>)}

MkCsv(headers, rows) == [supplied |-> TRUE, headers |-> headers, rows |-> rows]

NotSupplied == [supplied |-> FALSE, headers |-> <<>>, rows |-> <<>>]

(***************************************************************************)
(* Templates                                                               *)
(***************************************************************************)
TplUser == <<"t", "p", "l">>

BlankResp == << <<"text", EmptyStr>>, <<"answer", EmptyStr>> >>

MkNode(form, key, level, data, children) ==
    [form |-> form, key |-> key, level |-> level, is_subform |-> IF level = 0 THEN 0 ELSE 1,
     user |-> TplUser, data |-> data, child_forms |-> children]

\* the keys of the six template nodes under each key scheme
KeySchemes == {"low", "high", "alpha"}

TplKey(scheme, i) ==
    IF scheme = "low" THEN StrOf(i)
    ELSE IF scheme = "high" THEN StrOf(DefaultSeed + i)
    ELSE <<"k">> \o StrOf(i)

OptionalForms == {"safety", "perf", "harms", "followup"}

Layouts == {"flat", "nested"}

\* a template record: Extraction > SPD, with Safety > Harms, Performance and
\* Follow-up either next to SPD ("flat") or under SPD ("nested")
MkTemplate(layout, scheme, present) ==
    LET harms  == IF "harms" \in present
                  THEN << <<TplKey(scheme, 5), MkNode(sHarms, <<"h">>, 3, <<>>, <<>>)>> >>
                  ELSE <<>>
        safety == IF "safety" \in present
                  THEN << <<TplKey(scheme, 3),
                            MkNode(sSafety, <<"s">>, 2,
                                   << [question |-> sAdverseEvent, type |-> sRadio,
                                       response |-> BlankResp] >>, harms)>> >>
                  ELSE <<>>
        perf   == IF "perf" \in present
                  THEN << <<TplKey(scheme, 4), MkNode(sPerf, <<"p">>, 2, <<>>, <<>>)>> >>
                  ELSE <<>>
        follow == IF "followup" \in present
                  THEN << <<TplKey(scheme, 6), MkNode(sFollowup, <<"f">>, 2, <<>>, <<>>)>> >>
                  ELSE <<>>
        spd    == << <<TplKey(scheme, 2),
                       MkNode(sSPD, <<"d">>, 1,
                              << [question |-> sDatasetLabel, type |-> sText,
                                  response |-> BlankResp] >>,
                              IF layout = "nested" THEN safety \o perf \o follow
                              ELSE follow)>> >>
        extr   == MkNode(sExtraction, <<"e">>, 0,
                         << [question |-> sArticleIdentifier, type |-> sText,
                             response |-> BlankResp] >>,
                         IF layout = "nested" THEN spd ELSE spd \o safety \o perf)
    IN  [refid |-> <<"0">>, tags |-> <<>>, attachments |-> <<>>,
         biblio_string |-> <<"b">>,
         data_sets |-> << <<TplKey(scheme, 1), extr>> >>]

(***************************************************************************)
(* State                                                                   *)
(***************************************************************************)
VARIABLES
    ver,           \* "V1": JSONBuilder.build, "V2": build_from_files
    template_obj,  \* the parsed template: [shape, root]
    csv,           \* the five CSVs: [spd, safety, perf, harms, follow]
    zero_pad_spd,  \* V2: the zero_pad_spd option
    pc,            \* "load", "group", "build", "done", "error" ("pop" in SpecPop)
    err,           \* the message of the error raised, "" if none
    protos,        \* the prototypes found in the template
    next_id,       \* JSONBuilder.next_id / IdFactory.counter
    ids,           \* every identifier returned by _gen_id / IdFactory.next so far
    grp,           \* the groupings of the CSV rows
    heap,          \* the form nodes created so far
    src,           \* history: for every node of heap, its kind and the row it was built from
    root,          \* the top-level record under construction, None between records
    ds_id,         \* V1: the identifier drawn for the record's Extraction node
    out,           \* the records appended to the output list
    iRef,          \* number of refid groups completed
    spdList,       \* the SPD rows of the current refid, in iteration order
    iSpd,          \* number of SPD rows of spdList taken
    curExt,        \* heap index of the current Extraction node
    curSpd,        \* heap index of the current SPD node, 0 if the row gave none
    curSaf,        \* heap index of the Safety node being filled, 0 if none
    new_safety_id, \* V2: the identifier drawn for the Safety node being filled
    iPerf,         \* number of Performance rows of the current SPD taken
    iSaf,          \* number of Safety rows of the current SPD taken
    iHarm,         \* number of Harms rows of the current Safety node taken
    iFol,          \* number of Follow-up rows of the current SPD taken
    pIn,           \* SpecPop: the populator's input [proto, row]
    pOut           \* SpecPop: the populator's results

inputs == <<ver, template_obj, csv, zero_pad_spd>>

loopVars == <<root, ds_id, iRef, spdList, iSpd, curExt, curSpd, curSaf, new_safety_id,
              iPerf, iSaf, iHarm, iFol>>

popVars == <<pIn, pOut>>

vars == <<ver, template_obj, csv, zero_pad_spd, pc, err, protos, next_id, ids, grp, heap,
          src, root, ds_id, out, iRef, spdList, iSpd, curExt, curSpd, curSaf, new_safety_id,
          iPerf, iSaf, iHarm, iFol, pIn, pOut>>

(***************************************************************************)
(* Initial states: the inputs of one build run, nothing built yet          *)
(***************************************************************************)
\* the layout of the template each program looks for
LayoutOf(v) == IF v = "V1" THEN "flat" ELSE "nested"

\* one row of every kind for refid 1, spd_id 2, safety_id 9
OneOfEachCsvs ==
    [spd    |-> MkCsv(SpdHeaders, <<MkRow(SpdHeaders, <<<<"1">>, <<"2">>>>)>>),
     safety |-> MkCsv(SafetyHeaders,
                      <<MkRow(SafetyHeaders, <<<<"1">>, <<"2">>, <<"9">>, <<"A", "E">>>>)>>),
     harms  |-> MkCsv(HarmsHeaders, <<MkRow(HarmsHeaders, <<<<"1">>, <<"2">>, <<"9">>>>)>>),
     perf   |-> MkCsv(PerfHeaders, <<MkRow(PerfHeaders, <<<<"1">>, <<"2">>>>)>>),
     follow |-> MkCsv(FollowHeaders, <<MkRow(FollowHeaders, <<<<"1">>, <<"2">>, <<"v">>>>)>>)]

\* the SPD rows vary beside one row of every other kind
SpdRowCsvs ==
    {[OneOfEachCsvs EXCEPT !.spd = MkCsv(SpdHeaders, a)] :
        a \in SeqsUpTo(SpdRowSet, MaxSpdRows)}

\* the SPD rows of the instance the Safety and Harms rows name, under two refids
PairedSpdRowSet == {MkRow(SpdHeaders, <<r, <<"2">>>>) : r \in {<<"1">>, <<"2">>}}

\* the Safety and Harms rows vary under SPD rows of two refids
SafetyRowCsvs ==
    {[spd    |-> MkCsv(SpdHeaders, a),
      safety |-> MkCsv(SafetyHeaders, b),
      harms  |-> MkCsv(HarmsHeaders, c),
      perf   |-> MkCsv(PerfHeaders, <<>>),
      follow |-> NotSupplied] :
        a \in SeqsUpTo(PairedSpdRowSet, MaxSpdRows),
        b \in SeqsUpTo(SafetyRowSet, MaxSafetyRows),
        c \in SeqsUpTo(HarmsRowSet, MaxHarmsRows)}

\* the Performance and Follow-up rows vary beside the Safety rows of one SPD row
PerfRowCsvs ==
    {[OneOfEachCsvs EXCEPT !.safety = MkCsv(SafetyHeaders, b),
                           !.perf = MkCsv(PerfHeaders, d),
                           !.follow = e] :
        b \in SeqsUpTo(SafetyRowSet, MaxSafetyRows),
        d \in SeqsUpTo(PerfRowSet, MaxPerfRows),
        e \in {NotSupplied} \cup {MkCsv(FollowHeaders, f) :
                                    f \in SeqsUpTo(FollowRowSet, MaxFollowRows) \ {<<>>}}}

FullRowCsvs == SpdRowCsvs \cup SafetyRowCsvs \cup PerfRowCsvs

\* a CSV without the column col
DropCol(c, col) ==
    [c EXCEPT !.headers = SelectSeq(@, LAMBDA h : h # col),
              !.rows = [i \in 1..Len(@) |-> SelectSeq(@[i], LAMBDA kv : kv[1] # col)]]

CsvKinds == {"spd", "safety", "harms", "perf", "follow"}

\* one row of every kind, the Safety row for refid 1 or for a refid without SPD row
HeaderBases ==
    {[OneOfEachCsvs EXCEPT !.safety.rows =
          <<MkRow(SafetyHeaders, <<r, <<"2">>, <<"9">>, <<"A", "E">>>>)>>] :
        r \in {<<"1">>, <<"2">>}}

\* one CSV lacks one linkage column, with its row or without any row
MissingColumnCsvs ==
    {[b EXCEPT ![k] = DropCol(IF emptied THEN [b[k] EXCEPT !.rows = <<>>] ELSE b[k], col)] :
        b \in HeaderBases, k \in CsvKinds, col \in {sRefid, sSpdId, sSafetyId},
        emptied \in BOOLEAN}

\* the rows vary under the complete template in the program's own layout
InitRows ==
    /\ ver \in {"V1", "V2"}
    /\ template_obj = [shape |-> "list",
                       root  |-> MkTemplate(LayoutOf(ver), "low", OptionalForms)]
    /\ csv \in FullRowCsvs
    /\ zero_pad_spd = FALSE

\* the headers vary under the complete template in the program's own layout
InitHeaders ==
    /\ ver \in {"V1", "V2"}
    /\ template_obj = [shape |-> "list",
                       root  |-> MkTemplate(LayoutOf(ver), "low", OptionalForms)]
    /\ csv \in MissingColumnCsvs
    /\ zero_pad_spd = FALSE

\* the template varies under one row of every kind
InitTemplates ==
    /\ ver \in {"V1", "V2"}
    /\ template_obj \in {[shape |-> sh, root |-> MkTemplate(l, k, p)] :
                            sh \in {"list", "dict"}, l \in Layouts, k \in KeySchemes,
                            p \in SUBSET OptionalForms}
    /\ csv = OneOfEachCsvs
    /\ zero_pad_spd \in BOOLEAN

sSummary == <<"S", "u", "m", "m", "a", "r", "y">>

\* the template record without its SPD form
WithoutSpd(rec) ==
    [rec EXCEPT !.data_sets[1][2].child_forms = SelectSeq(@, LAMBDA kv : kv[2].form # sSPD)]

\* the template record with its one dataset under another form name
WithoutExtraction(rec) == [rec EXCEPT !.data_sets[1][2].form = sSummary]

\* the template record without any dataset
WithoutDataSets(rec) == [rec EXCEPT !.data_sets = <<>>]

\* the complete template and the templates that lack a required part; "other"
\* is a JSON document that is neither an object nor an array
DamagedTemplates ==
    {[shape |-> sh, root |-> r] :
        sh \in {"list", "dict", "other"},
        r \in UNION {{MkTemplate(l, "low", OptionalForms),
                      WithoutSpd(MkTemplate(l, "low", OptionalForms)),
                      WithoutExtraction(MkTemplate(l, "low", OptionalForms)),
                      WithoutDataSets(MkTemplate(l, "low", OptionalForms))} : l \in Layouts}}

\* one row of every kind, and the same with an SPD CSV without rows or without
\* an spd_id value
FewSpdCsvs ==
    {OneOfEachCsvs,
     [OneOfEachCsvs EXCEPT !.spd.rows = <<>>],
     [OneOfEachCsvs EXCEPT !.spd.rows = <<MkRow(SpdHeaders, <<<<"1">>, EmptyStr>>)>>]}

\* templates that lack a required part
InitDamaged ==
    /\ ver \in {"V1", "V2"}
    /\ template_obj \in DamagedTemplates
    /\ csv \in FewSpdCsvs
    /\ zero_pad_spd = FALSE

NoPop == [proto |-> <<>>, row |-> <<>>]

Init ==
    /\ InitRows \/ InitTemplates \/ InitHeaders \/ InitDamaged
    /\ pc = "load"
    /\ err = ""
    /\ protos = NoProtos
    /\ next_id = 0
    /\ ids = <<>>
    /\ grp = NoGrouping
    /\ heap = <<>>
    /\ src = <<>>
    /\ root = None
    /\ ds_id = EmptyStr
    /\ out = <<>>
    /\ iRef = 0
    /\ spdList = <<>>
    /\ iSpd = 0
    /\ curExt = 0
    /\ curSpd = 0
    /\ curSaf = 0
    /\ new_safety_id = EmptyStr
    /\ iPerf = 0
    /\ iSaf = 0
    /\ iHarm = 0
    /\ iFol = 0
    /\ pIn = NoPop
    /\ pOut = <<>>

(***************************************************************************)
(* Loading the template and grouping the rows                              *)
(***************************************************************************)
\* V1 on_build: TemplateForms(template_obj); JSONBuilder(tf)
LoadTemplateV1 ==
    /\ pc = "load" /\ ver = "V1"
    /\ IF V1TemplateError(template_obj) # ""
       THEN /\ pc' = "error"
            /\ err' = V1TemplateError(template_obj)
            /\ UNCHANGED <<protos, next_id>>
       ELSE /\ pc' = "group"
            /\ protos' = TemplateForms(template_obj)
            /\ next_id' = V1StartFrom
            /\ err' = err
    /\ UNCHANGED <<inputs, ids, grp, heap, src, out, loopVars, popVars>>

\* V2 build_from_files, template discovery and IdFactory construction
LoadTemplateV2 ==
    /\ pc = "load" /\ ver = "V2"
    /\ IF V2TemplateError(template_obj) # ""
       THEN /\ pc' = "error"
            /\ err' = V2TemplateError(template_obj)
            /\ UNCHANGED <<protos, next_id>>
       ELSE /\ pc' = "group"
            /\ protos' = V2Templates(template_obj)
            /\ next_id' = V2StartFrom(template_obj)
            /\ err' = err
    /\ UNCHANGED <<inputs, ids, grp, heap, src, out, loopVars, popVars>>

\* V1 on_build's validation of the ID columns, then JSONBuilder.build, "# Grouping"
GroupV1 ==
    /\ pc = "group" /\ ver = "V1"
    /\ IF V1RequireRaises(csv)
       THEN /\ pc' = "error"
            /\ err' = "CSV missing column(s)"
            /\ grp' = grp
       ELSE /\ pc' = "build"
            /\ grp' = V1Grouping(csv)
            /\ err' = err
    /\ UNCHANGED <<inputs, protos, next_id, ids, heap, src, out, loopVars, popVars>>

\* V2 build_from_files, "# Group DataFrames for quick access"
GroupV2 ==
    /\ pc = "group" /\ ver = "V2"
    /\ IF V2GroupingRaises(csv)
       THEN /\ pc' = "error"
            /\ err' = "Required column missing in CSV."
            /\ grp' = grp
       ELSE /\ pc' = "build"
            /\ grp' = V2Grouping(csv)
            /\ err' = err
    /\ UNCHANGED <<inputs, protos, next_id, ids, heap, src, out, loopVars, popVars>>

(***************************************************************************)
(* Helpers of the build loops                                              *)
(***************************************************************************)
\* the k identifiers the next k calls of _gen_id / IdFactory.next return
NewIds(k) == [i \in 1..k |-> StrOf(next_id + i)]

\* a variant that files the child under its own 'key' field
AttachByNodeKey(h, parent, key, child) ==
    [h EXCEPT ![parent].child_forms = DictSet(@, h[child].key, child)]

\* parent['child_forms'][key] = child, child being a heap index
Attach(h, parent, key, child) ==
    [h EXCEPT ![parent].child_forms = DictSet(@, key, child)]

\* the history of the node an action has just created, if it created one
SrcAfter(heapAfter, kind, row) ==
    IF Len(heapAfter) > Len(heap) THEN Append(src, [kind |-> kind, row |-> row]) ELSE src

\* a variant in which the copy is the node itself
SameObject(node, written) == written

\* copy.deepcopy in deep_clone / _deepcopy: the node a copy was taken of,
\* once the program has written into the copy; the two share no object
deep_clone(node, written) == node

\* the prototypes after an action that has cloned the prototype of one kind
\* and filled the clone, the node it has just added to the heap
ProtosAfter(heapAfter, kind) ==
    IF Len(heapAfter) > Len(heap) /\ protos[kind] # None
    THEN [protos EXCEPT ![kind] = Some(deep_clone(protos[kind][1], heapAfter[Len(heapAfter)]))]
    ELSE protos

\* the refid of the record under construction: the key of its SPD group
CurRefid == grp.spd[iRef + 1][1][1]

\* the SPD row whose body is being processed
CurSpdRow == spdList[iSpd]

\* the value of the record's refid field: an int or a str
IntRefid(n) == [isint |-> TRUE, n |-> n, s |-> EmptyStr]

StrRefid(s) == [isint |-> FALSE, n |-> 0, s |-> s]

(***************************************************************************)
(* V1: JSONBuilder.build                                                   *)
(***************************************************************************)
\* _make_extraction: a clone of the Extraction prototype for refid
_make_extraction(refid) ==
    LET ds == protos.extraction[1] IN
    [ds EXCEPT !.key = refid,
               !.user = USER_NAME,
               !.data = [i \in 1..Len(ds.data) |->
                            IF ds.data[i].question = sArticleIdentifier
                            THEN [ds.data[i] EXCEPT !.response = DictSet(@, "text", refid)]
                            ELSE ds.data[i]],
               !.child_forms = <<>>]

V1SpdId == Cell(CurSpdRow, sSpdId)

V1PerfRows == IF curSpd = 0 THEN <<>> ELSE DictGetOr(grp.perf, <<CurRefid, V1SpdId>>, <<>>)

V1SafetyRows == IF curSpd = 0 THEN <<>> ELSE DictGetOr(grp.safety, <<CurRefid, V1SpdId>>, <<>>)

V1FollowRows == IF curSpd = 0 THEN <<>> ELSE DictGetOr(grp.follow, <<CurRefid, V1SpdId>>, <<>>)

\* the Harms rows looked up for the Safety row being processed
V1HarmsRows ==
    IF curSaf = 0 THEN <<>>
    ELSE DictGetOr(grp.harms, <<Cell(V1SafetyRows[iSaf], sSafetyId)>>, <<>>)

\* every inner loop of the current SPD row has run to its end
V1BodyDone ==
    /\ curSaf = 0
    /\ iPerf = Len(V1PerfRows)
    /\ iSaf = Len(V1SafetyRows)
    /\ iFol = Len(V1FollowRows)

\* lines 200-210: a new record and its Extraction node for the next refid
StartRecordV1 ==
    /\ pc = "build" /\ ver = "V1"
    /\ root = None /\ iRef < Len(grp.spd)
    /\ root' = Some([refid |-> IF IsDigit(CurRefid) THEN IntRefid(IntOf(CurRefid))
                               ELSE StrRefid(CurRefid),
                     tags |-> <<>>, attachments |-> <<>>, biblio_string |-> EmptyStr,
                     data_sets |-> <<>>])
    /\ ds_id' = NewIds(1)[1]
    /\ next_id' = next_id + 1
    /\ ids' = ids \o NewIds(1)
    /\ heap' = Append(heap, _make_extraction(CurRefid))
    /\ curExt' = Len(heap) + 1
    /\ spdList' = grp.spd[iRef + 1][2]
    /\ iSpd' = 0 /\ curSpd' = 0 /\ curSaf' = 0
    /\ iPerf' = 0 /\ iSaf' = 0 /\ iHarm' = 0 /\ iFol' = 0
    /\ src' = SrcAfter(heap', "extraction", <<>>)
    /\ protos' = ProtosAfter(heap', "extraction")
    /\ UNCHANGED <<inputs, pc, err, grp, out, iRef, new_safety_id, popVars>>

\* lines 212-226: the next SPD row of the refid
BuildSpdV1 ==
    /\ pc = "build" /\ ver = "V1"
    /\ root # None /\ V1BodyDone /\ iSpd < Len(spdList)
    /\ LET spd_row == spdList[iSpd + 1]
           spd_id  == Cell(spd_row, sSpdId)
       IN  IF spd_id = EmptyStr
           THEN \* continue
                /\ curSpd' = 0
                /\ UNCHANGED <<pc, err, heap>>
           ELSE IF protos.spd = None
           THEN /\ pc' = "error"
                /\ err' = "Template missing Study Parameters and Demographics prototype."
                /\ UNCHANGED <<heap, curSpd>>
           ELSE LET spd_form == [_populate_form_from_row(protos.spd[1], spd_row)
                                   EXCEPT !.key = pSpd \o spd_id,
                                          !.form = sSPD,
                                          !.user = USER_NAME,
                                          !.child_forms = <<>>]
                IN  /\ heap' = Attach(Append(heap, spd_form), curExt,
                                      pSpd \o spd_id, Len(heap) + 1)
                    /\ curSpd' = Len(heap) + 1
                    /\ UNCHANGED <<pc, err>>
    /\ iSpd' = iSpd + 1
    /\ iPerf' = 0 /\ iSaf' = 0 /\ iHarm' = 0 /\ iFol' = 0
    /\ src' = SrcAfter(heap', "spd", spdList[iSpd + 1])
    /\ protos' = ProtosAfter(heap', "spd")
    /\ UNCHANGED <<inputs, next_id, ids, grp, out, root, ds_id, iRef, spdList,
                   curExt, curSaf, new_safety_id, popVars>>

\* a variant that raises when the Performance prototype is missing
AddPerfV1Raising ==
    /\ pc = "build" /\ ver = "V1"
    /\ curSpd # 0 /\ iPerf < Len(V1PerfRows)
    /\ IF protos.perf = None
       THEN /\ pc' = "error"
            /\ err' = "Template missing Performance prototype."
            /\ UNCHANGED <<heap, next_id, ids>>
       ELSE LET perf_form == [_populate_form_from_row(protos.perf[1], V1PerfRows[iPerf + 1])
                                EXCEPT !.key = pPerf \o NewIds(2)[1],
                                       !.form = sPerf,
                                       !.user = USER_NAME]
            IN  /\ heap' = Attach(Append(heap, perf_form), curSpd,
                                  NewIds(2)[2], Len(heap) + 1)
                /\ next_id' = next_id + 2
                /\ ids' = ids \o NewIds(2)
                /\ UNCHANGED <<pc, err>>
    /\ iPerf' = iPerf + 1
    /\ src' = SrcAfter(heap', "perf", V1PerfRows[iPerf + 1])
    /\ protos' = ProtosAfter(heap', "perf")
    /\ UNCHANGED <<inputs, grp, out, root, ds_id, iRef, spdList, iSpd,
                   curExt, curSpd, curSaf, iSaf, iHarm, iFol, new_safety_id, popVars>>

\* lines 229-236: one Performance row of the current SPD
AddPerfV1 ==
    /\ pc = "build" /\ ver = "V1"
    /\ curSpd # 0 /\ iPerf < Len(V1PerfRows)
    /\ IF protos.perf = None
       THEN UNCHANGED <<heap, next_id, ids>>
       ELSE LET perf_form == [_populate_form_from_row(protos.perf[1], V1PerfRows[iPerf + 1])
                                EXCEPT !.key = pPerf \o NewIds(2)[1],
                                       !.form = sPerf,
                                       !.user = USER_NAME]
            IN  /\ heap' = Attach(Append(heap, perf_form), curSpd,
                                  NewIds(2)[2], Len(heap) + 1)
                /\ next_id' = next_id + 2
                /\ ids' = ids \o NewIds(2)
    /\ iPerf' = iPerf + 1
    /\ src' = SrcAfter(heap', "perf", V1PerfRows[iPerf + 1])
    /\ protos' = ProtosAfter(heap', "perf")
    /\ UNCHANGED <<inputs, pc, err, grp, out, root, ds_id, iRef, spdList, iSpd,
                   curExt, curSpd, curSaf, iSaf, iHarm, iFol, new_safety_id, popVars>>

\* lines 239-247: the Safety node of one Safety row, not attached yet
StartSafetyV1 ==
    /\ pc = "build" /\ ver = "V1"
    /\ curSpd # 0 /\ iPerf = Len(V1PerfRows)
    /\ curSaf = 0 /\ iSaf < Len(V1SafetyRows)
    /\ IF protos.safety = None
       THEN UNCHANGED <<heap, next_id, ids, curSaf>>
       ELSE LET srow      == V1SafetyRows[iSaf + 1]
                safety_id == Cell(srow, sSafetyId)
                k         == IF safety_id = EmptyStr THEN 1 ELSE 0
                safety_form == [_populate_form_from_row(protos.safety[1], srow)
                                  EXCEPT !.key = pSafety \o (IF safety_id # EmptyStr
                                                             THEN safety_id
                                                             ELSE NewIds(1)[1]),
                                         !.form = sSafety,
                                         !.user = USER_NAME,
                                         !.child_forms = <<>>]
            IN  /\ heap' = Append(heap, safety_form)
                /\ curSaf' = Len(heap) + 1
                /\ next_id' = next_id + k
                /\ ids' = ids \o NewIds(k)
    /\ iSaf' = iSaf + 1
    /\ iHarm' = 0
    /\ src' = SrcAfter(heap', "safety", V1SafetyRows[iSaf + 1])
    /\ protos' = ProtosAfter(heap', "safety")
    /\ UNCHANGED <<inputs, pc, err, grp, out, root, ds_id, iRef, spdList, iSpd,
                   curExt, curSpd, iPerf, iFol, new_safety_id, popVars>>

\* lines 248-255: one Harms row under the Safety node being filled
AddHarmsV1 ==
    /\ pc = "build" /\ ver = "V1"
    /\ curSaf # 0 /\ iHarm < Len(V1HarmsRows)
    /\ IF protos.harms = None
       THEN UNCHANGED <<heap, next_id, ids>>
       ELSE LET harms_form == [_populate_form_from_row(protos.harms[1], V1HarmsRows[iHarm + 1])
                                 EXCEPT !.key = pHarms \o NewIds(2)[1],
                                        !.form = sHarms,
                                        !.user = USER_NAME]
            IN  /\ heap' = Attach(Append(heap, harms_form), curSaf,
                                  NewIds(2)[2], Len(heap) + 1)
                /\ next_id' = next_id + 2
                /\ ids' = ids \o NewIds(2)
    /\ iHarm' = iHarm + 1
    /\ src' = SrcAfter(heap', "harms", V1HarmsRows[iHarm + 1])
    /\ protos' = ProtosAfter(heap', "harms")
    /\ UNCHANGED <<inputs, pc, err, grp, out, root, ds_id, iRef, spdList, iSpd,
                   curExt, curSpd, curSaf, iPerf, iSaf, iFol, new_safety_id, popVars>>

\* line 256: the Safety node goes under the current SPD
AttachSafetyV1 ==
    /\ pc = "build" /\ ver = "V1"
    /\ curSaf # 0 /\ iHarm = Len(V1HarmsRows)
    /\ heap' = Attach(heap, curSpd, NewIds(1)[1], curSaf)
    /\ next_id' = next_id + 1
    /\ ids' = ids \o NewIds(1)
    /\ curSaf' = 0
    /\ src' = src
    /\ UNCHANGED <<inputs, pc, err, protos, grp, out, root, ds_id, iRef, spdList, iSpd,
                   curExt, curSpd, iPerf, iSaf, iHarm, iFol, new_safety_id, popVars>>

\* the entries V1 builds from a Follow-up row when the template has no prototype
RECURSIVE AdHocData(_)
AdHocData(fu_row) ==
    IF Len(fu_row) = 0 THEN <<>>
    ELSE (IF fu_row[1][1] \in {sRefid, sSpdId, sSafetyId} THEN <<>>
          ELSE << [question |-> fu_row[1][1], type |-> sText,
                   response |-> << <<"answer", EmptyStr>>, <<"text", fu_row[1][2]>> >>] >>)
         \o AdHocData(Tail(fu_row))

\* lines 259-279: one Follow-up row of the current SPD
AddFollowupV1 ==
    /\ pc = "build" /\ ver = "V1"
    /\ curSpd # 0 /\ iPerf = Len(V1PerfRows)
    /\ curSaf = 0 /\ iSaf = Len(V1SafetyRows)
    /\ iFol < Len(V1FollowRows)
    /\ LET fu_row  == V1FollowRows[iFol + 1]
           \* the default of fu_form.get('key', ...) draws an identifier either way
           fu_form == IF protos.followup # None
                      THEN [_populate_form_from_row(protos.followup[1], fu_row)
                              EXCEPT !.form = sFollowup,
                                     !.user = USER_NAME]
                      ELSE [form |-> sFollowup, key |-> pFollowup \o NewIds(2)[1],
                            level |-> 1, is_subform |-> 1, user |-> USER_NAME,
                            data |-> AdHocData(fu_row), child_forms |-> <<>>]
       IN  heap' = Attach(Append(heap, fu_form), curSpd, NewIds(2)[2], Len(heap) + 1)
    /\ next_id' = next_id + 2
    /\ ids' = ids \o NewIds(2)
    /\ iFol' = iFol + 1
    /\ src' = SrcAfter(heap', "followup", V1FollowRows[iFol + 1])
    /\ protos' = ProtosAfter(heap', "followup")
    /\ UNCHANGED <<inputs, pc, err, grp, out, root, ds_id, iRef, spdList, iSpd,
                   curExt, curSpd, curSaf, iPerf, iSaf, iHarm, new_safety_id, popVars>>

\* lines 281-282: the record is complete
FinishRecordV1 ==
    /\ pc = "build" /\ ver = "V1"
    /\ root # None /\ V1BodyDone /\ iSpd = Len(spdList)
    /\ out' = Append(out, [root[1] EXCEPT !.data_sets = DictSet(@, ds_id, curExt)])
    /\ root' = None
    /\ iRef' = iRef + 1
    /\ curSpd' = 0
    /\ UNCHANGED <<inputs, pc, err, protos, next_id, ids, grp, heap, src, ds_id, spdList, iSpd,
                   curExt, curSaf, iPerf, iSaf, iHarm, iFol, new_safety_id, popVars>>

\* line 283: return out
ReturnV1 ==
    /\ pc = "build" /\ ver = "V1"
    /\ root = None /\ iRef = Len(grp.spd)
    /\ pc' = "done"
    /\ UNCHANGED <<inputs, err, protos, next_id, ids, grp, heap, src, out, loopVars, popVars>>

(***************************************************************************)
(* V2: build_from_files                                                    *)
(***************************************************************************)
spd_hdr_idx == _index_by_normalized(csv.spd.headers)

safety_hdr_idx == IF csv.safety.supplied THEN _index_by_normalized(csv.safety.headers) ELSE <<>>

perf_hdr_idx == IF csv.perf.supplied THEN _index_by_normalized(csv.perf.headers) ELSE <<>>

harms_hdr_idx == IF csv.harms.supplied THEN _index_by_normalized(csv.harms.headers) ELSE <<>>

followup_hdr_idx == IF csv.follow.supplied THEN _index_by_normalized(csv.follow.headers) ELSE <<>>

\* int(s) succeeds: digits with an optional sign (s is stripped already)
IntParses(s) ==
    \/ IsDigit(s)
    \/ Len(s) >= 2 /\ s[1] \in {"+", "-"} /\ IsDigit(Tail(s))

\* f"{n}" / f"{n:02d}" of n = int(s)
IntFormat(s, pad) ==
    LET neg == s[1] = "-" /\ IntOf(Tail(s)) # 0
        mag == IF IsDigit(s) THEN IntOf(s) ELSE IntOf(Tail(s))
    IN  IF neg THEN <<"-">> \o StrOf(mag)
        ELSE IF pad THEN Pad2(mag) ELSE StrOf(mag)

\* lines 321-325: the name spd_XX of an SPD row
SpdName(spd_id_val, pad) ==
    IF IntParses(Strip(spd_id_val))
    THEN pSpd \o IntFormat(Strip(spd_id_val), pad)
    ELSE pSpd \o spd_id_val

\* row.get(a, "") or row.get(b, "")
GetOr(row, a, b) ==
    IF DictGetOr(row, a, EmptyStr) # EmptyStr THEN DictGet(row, a)
    ELSE DictGetOr(row, b, EmptyStr)

V2SpdId == DictGet(CurSpdRow, sSpdId)

V2SpdNameCur == SpdName(V2SpdId, zero_pad_spd)

V2SafetyRows ==
    IF curSpd # 0 /\ protos.safety # None /\ DictHas(grp.safety, <<CurRefid, V2SpdId>>)
    THEN DictGet(grp.safety, <<CurRefid, V2SpdId>>) ELSE <<>>

V2PerfRows ==
    IF curSpd # 0 /\ protos.perf # None /\ DictHas(grp.perf, <<CurRefid, V2SpdId>>)
    THEN DictGet(grp.perf, <<CurRefid, V2SpdId>>) ELSE <<>>

V2FollowRows ==
    IF curSpd # 0 /\ protos.followup # None /\ DictHas(grp.follow, <<CurRefid, V2SpdId>>)
    THEN DictGet(grp.follow, <<CurRefid, V2SpdId>>) ELSE <<>>

\* the Harms rows looked up for the Safety row being processed
V2HarmsRows ==
    IF curSaf # 0 /\ protos.harms # None
       /\ DictHas(grp.harms, <<CurRefid, V2SpdId, DictGet(V2SafetyRows[iSaf], sSafetyId)>>)
    THEN DictGet(grp.harms, <<CurRefid, V2SpdId, DictGet(V2SafetyRows[iSaf], sSafetyId)>>)
    ELSE <<>>

V2BodyDone ==
    /\ curSaf = 0
    /\ iSaf = Len(V2SafetyRows)
    /\ iPerf = Len(V2PerfRows)
    /\ iFol = Len(V2FollowRows)

\* lines 298-305: the clone of the Extraction template for refid
V2ExtractionNode(refid) ==
    LET t == protos.extraction[1] IN
    [t EXCEPT !.key = refid,
              !.child_forms = <<>>,
              !.data = [i \in 1..Len(t.data) |->
                           IF _normalize(t.data[i].question) = _normalize(sArticleIdentifier)
                           THEN _set_response(t.data[i], Some(refid))
                           ELSE t.data[i]]]

\* lines 285-317: a new record and its Extraction node for the next refid; the
\* SPD rows of the refid are put in order (the added sort column is read by
\* nothing else and is left out of the rows)
StartRecordV2 ==
    /\ pc = "build" /\ ver = "V2"
    /\ root = None /\ iRef < Len(grp.spd)
    /\ root' = Some([template_obj.root EXCEPT
                        !.refid = StrRefid(CurRefid),
                        !.data_sets = << <<NewIds(1)[1], Len(heap) + 1>> >>])
    /\ next_id' = next_id + 1
    /\ ids' = ids \o NewIds(1)
    /\ heap' = Append(heap, V2ExtractionNode(CurRefid))
    /\ curExt' = Len(heap) + 1
    /\ LET spd_rows_for_refid == grp.spd[iRef + 1][2] IN
       IF sSpdId \notin Range(csv.spd.headers)
       THEN /\ pc' = "error"
            /\ err' = "SPD CSV must contain 'spd_id' column."
            /\ spdList' = spdList
       ELSE IF SortRaises(spd_rows_for_refid)
       THEN /\ pc' = "error"
            /\ err' = "TypeError: '<' not supported between instances of 'str' and 'int'"
            /\ spdList' = spdList
       ELSE /\ spdList' = SortBySpdId(spd_rows_for_refid)
            /\ UNCHANGED <<pc, err>>
    /\ iSpd' = 0 /\ curSpd' = 0 /\ curSaf' = 0
    /\ iPerf' = 0 /\ iSaf' = 0 /\ iHarm' = 0 /\ iFol' = 0
    /\ src' = SrcAfter(heap', "extraction", <<>>)
    /\ protos' = ProtosAfter(heap', "extraction")
    /\ UNCHANGED <<inputs, grp, out, ds_id, iRef, new_safety_id, popVars>>

\* lines 318-337: the SPD node of the next SPD row
BuildSpdV2 ==
    /\ pc = "build" /\ ver = "V2"
    /\ root # None /\ V2BodyDone /\ iSpd < Len(spdList)
    /\ LET spd_row  == spdList[iSpd + 1]
           spd_name == SpdName(DictGet(spd_row, sSpdId), zero_pad_spd)
           spd_node == [_populate_form_data_from_row(
                            [protos.spd[1] EXCEPT !.key = spd_name],
                            spd_row, spd_hdr_idx, Some(spd_name))
                          EXCEPT !.child_forms = <<>>]
       IN  heap' = Attach(Append(heap, spd_node), curExt, NewIds(1)[1], Len(heap) + 1)
    /\ next_id' = next_id + 1
    /\ ids' = ids \o NewIds(1)
    /\ curSpd' = Len(heap) + 1
    /\ iSpd' = iSpd + 1
    /\ iPerf' = 0 /\ iSaf' = 0 /\ iHarm' = 0 /\ iFol' = 0
    /\ src' = SrcAfter(heap', "spd", spdList[iSpd + 1])
    /\ protos' = ProtosAfter(heap', "spd")
    /\ UNCHANGED <<inputs, pc, err, grp, out, root, ds_id, iRef, spdList,
                   curExt, curSaf, new_safety_id, popVars>>

\* lines 340-359: the Safety node of one Safety row, not attached yet
StartSafetyV2 ==
    /\ pc = "build" /\ ver = "V2"
    /\ curSpd # 0 /\ curSaf = 0 /\ iSaf < Len(V2SafetyRows)
    /\ IF sSafetyId \notin Range(csv.safety.headers)
       THEN /\ pc' = "error"
            /\ err' = "Safety.csv must contain 'safety_id' column."
            /\ UNCHANGED <<heap, next_id, ids, curSaf, new_safety_id, iSaf, iHarm>>
       ELSE LET srow   == V2SafetyRows[iSaf + 1]
                ae_val == GetOr(srow, sAdverseEvent, sAdverseEventLc)
                safety_node ==
                    [_populate_form_data_from_row(
                         [protos.safety[1] EXCEPT
                             !.key = Strip(V2SpdNameCur \o <<"\n">> \o ae_val)],
                         srow, safety_hdr_idx, None)
                       EXCEPT !.child_forms = <<>>]
            IN  /\ heap' = Append(heap, safety_node)
                /\ curSaf' = Len(heap) + 1
                /\ new_safety_id' = NewIds(1)[1]
                /\ next_id' = next_id + 1
                /\ ids' = ids \o NewIds(1)
                /\ iSaf' = iSaf + 1
                /\ iHarm' = 0
                /\ UNCHANGED <<pc, err>>
    /\ src' = SrcAfter(heap', "safety", V2SafetyRows[iSaf + 1])
    /\ protos' = ProtosAfter(heap', "safety")
    /\ UNCHANGED <<inputs, grp, out, root, ds_id, iRef, spdList, iSpd,
                   curExt, curSpd, iPerf, iFol, popVars>>

\* lines 362-372: one Harms row under the Safety node being filled
AddHarmsV2 ==
    /\ pc = "build" /\ ver = "V2"
    /\ curSaf # 0 /\ iHarm < Len(V2HarmsRows)
    /\ LET safety_id_val == DictGet(V2SafetyRows[iSaf], sSafetyId)
           harm_node == _populate_form_data_from_row(
                            [protos.harms[1] EXCEPT
                                !.key = Strip(V2SpdNameCur \o <<"\n">> \o safety_id_val)],
                            V2HarmsRows[iHarm + 1], harms_hdr_idx, None)
       IN  heap' = Attach(Append(heap, harm_node), curSaf, NewIds(1)[1], Len(heap) + 1)
    /\ next_id' = next_id + 1
    /\ ids' = ids \o NewIds(1)
    /\ iHarm' = iHarm + 1
    /\ src' = SrcAfter(heap', "harms", V2HarmsRows[iHarm + 1])
    /\ protos' = ProtosAfter(heap', "harms")
    /\ UNCHANGED <<inputs, pc, err, grp, out, root, ds_id, iRef, spdList, iSpd,
                   curExt, curSpd, curSaf, new_safety_id, iPerf, iSaf, iFol, popVars>>

\* line 375: the Safety node goes under the current SPD
AttachSafetyV2 ==
    /\ pc = "build" /\ ver = "V2"
    /\ curSaf # 0 /\ iHarm = Len(V2HarmsRows)
    /\ heap' = Attach(heap, curSpd, new_safety_id, curSaf)
    /\ curSaf' = 0
    /\ src' = src
    /\ UNCHANGED <<inputs, pc, err, protos, next_id, ids, grp, out, root, ds_id, iRef,
                   spdList, iSpd, curExt, curSpd, new_safety_id, iPerf, iSaf, iHarm, iFol,
                   popVars>>

\* lines 378-389: one Performance row of the current SPD
AddPerfV2 ==
    /\ pc = "build" /\ ver = "V2"
    /\ curSpd # 0 /\ curSaf = 0 /\ iSaf = Len(V2SafetyRows)
    /\ iPerf < Len(V2PerfRows)
    /\ LET prow     == V2PerfRows[iPerf + 1]
           endpoint == GetOr(prow, sPerfEndpoint, sPerfEndpointLc)
           tpoint   == GetOr(prow, sPerfTimePoint, sPerfTimePointLc)
           perf_node == _populate_form_data_from_row(
                            [protos.perf[1] EXCEPT
                                !.key = Strip(StripChar(V2SpdNameCur \o <<"\n">> \o endpoint
                                                        \o <<"-">> \o tpoint, "-"))],
                            prow, perf_hdr_idx, None)
       IN  heap' = Attach(Append(heap, perf_node), curSpd, NewIds(1)[1], Len(heap) + 1)
    /\ next_id' = next_id + 1
    /\ ids' = ids \o NewIds(1)
    /\ iPerf' = iPerf + 1
    /\ src' = SrcAfter(heap', "perf", V2PerfRows[iPerf + 1])
    /\ protos' = ProtosAfter(heap', "perf")
    /\ UNCHANGED <<inputs, pc, err, grp, out, root, ds_id, iRef, spdList, iSpd,
                   curExt, curSpd, curSaf, new_safety_id, iSaf, iHarm, iFol, popVars>>

\* lines 392-401: one Follow-up row of the current SPD
AddFollowupV2 ==
    /\ pc = "build" /\ ver = "V2"
    /\ curSpd # 0 /\ curSaf = 0 /\ iSaf = Len(V2SafetyRows)
    /\ iPerf = Len(V2PerfRows)
    /\ iFol < Len(V2FollowRows)
    /\ LET follow_node == _populate_form_data_from_row(
                              [protos.followup[1] EXCEPT !.key = V2SpdNameCur \o sNlFollowup],
                              V2FollowRows[iFol + 1], followup_hdr_idx, None)
       IN  heap' = Attach(Append(heap, follow_node), curSpd, NewIds(1)[1], Len(heap) + 1)
    /\ next_id' = next_id + 1
    /\ ids' = ids \o NewIds(1)
    /\ iFol' = iFol + 1
    /\ src' = SrcAfter(heap', "followup", V2FollowRows[iFol + 1])
    /\ protos' = ProtosAfter(heap', "followup")
    /\ UNCHANGED <<inputs, pc, err, grp, out, root, ds_id, iRef, spdList, iSpd,
                   curExt, curSpd, curSaf, new_safety_id, iPerf, iSaf, iHarm, popVars>>

\* the end of the loop body over the refids: the record joins output_records
FinishRecordV2 ==
    /\ pc = "build" /\ ver = "V2"
    /\ root # None /\ V2BodyDone /\ iSpd = Len(spdList)
    /\ out' = Append(out, root[1])
    /\ root' = None
    /\ iRef' = iRef + 1
    /\ curSpd' = 0
    /\ UNCHANGED <<inputs, pc, err, protos, next_id, ids, grp, heap, src, ds_id, spdList, iSpd,
                   curExt, curSaf, new_safety_id, iPerf, iSaf, iHarm, iFol, popVars>>

\* return output_records
ReturnV2 ==
    /\ pc = "build" /\ ver = "V2"
    /\ root = None /\ iRef = Len(grp.spd)
    /\ pc' = "done"
    /\ UNCHANGED <<inputs, err, protos, next_id, ids, grp, heap, src, out, loopVars, popVars>>

Next ==
    \/ LoadTemplateV1 \/ GroupV1 \/ StartRecordV1 \/ BuildSpdV1 \/ AddPerfV1
    \/ StartSafetyV1 \/ AddHarmsV1 \/ AttachSafetyV1 \/ AddFollowupV1
    \/ FinishRecordV1 \/ ReturnV1
    \/ LoadTemplateV2 \/ GroupV2 \/ StartRecordV2 \/ BuildSpdV2 \/ StartSafetyV2
    \/ AddHarmsV2 \/ AttachSafetyV2 \/ AddPerfV2 \/ AddFollowupV2
    \/ FinishRecordV2 \/ ReturnV2

Spec == Init /\ [][Next]_vars

(***************************************************************************)
(* The form populators on their own: one prototype, one row                *)
(***************************************************************************)
MaxQuestions == 2

sDropdown == <<"D", "r", "o", "p", "d", "o", "w", "n">>

sOld == <<"o", "l", "d">>

StaleResp == << <<"text", sOld>>, <<"answer", sOld>> >>

\* questions: the multi-value one, one with a column of the same text, one whose
\* column differs in case and underscore, one without a column
PopQuestions == {sAssociatedCERs, sAdverseEvent, sAdverseEventLc, sFormName}

PopTypes == {sText, sRadio, sDropdown}

PopEntries == {[question |-> q, type |-> t, response |-> r] :
                 q \in PopQuestions, t \in PopTypes, r \in {BlankResp, StaleResp}}

PopHeaders == <<sAssociatedCERs, sAdverseEvent>>

sABC == <<"A", ",", " ", "B", ";", " ", "C">>

PopRows == {MkRow(PopHeaders, <<v, <<"x">>>>) : v \in {sABC, EmptyStr, <<"A">>}}

InitPop ==
    /\ ver \in {"V1", "V2"}
    /\ pIn \in {[proto |-> MkNode(sSafety, <<"s">>, 2, d, <<>>), row |-> r] :
                  d \in SeqsUpTo(PopEntries, MaxQuestions), r \in PopRows}
    /\ pOut = None
    /\ pc = "pop"
    /\ template_obj = [shape |-> "list", root |-> MkTemplate("flat", "low", {})]
    /\ csv = OneOfEachCsvs
    /\ zero_pad_spd = FALSE
    /\ err = ""
    /\ protos = NoProtos
    /\ next_id = 0
    /\ ids = <<>>
    /\ grp = NoGrouping
    /\ heap = <<>>
    /\ src = <<>>
    /\ root = None
    /\ ds_id = EmptyStr
    /\ out = <<>>
    /\ iRef = 0
    /\ spdList = <<>>
    /\ iSpd = 0
    /\ curExt = 0
    /\ curSpd = 0
    /\ curSaf = 0
    /\ new_safety_id = EmptyStr
    /\ iPerf = 0
    /\ iSaf = 0
    /\ iHarm = 0
    /\ iFol = 0

buildVars == <<template_obj, csv, zero_pad_spd, err, protos, next_id, ids, grp, heap, src,
               out, loopVars>>

\* V1: form = self._populate_form_from_row(form_proto, row)
PopulateV1 ==
    /\ pc = "pop" /\ ver = "V1"
    /\ pOut' = Some(_populate_form_from_row(pIn.proto, pIn.row))
    /\ pc' = "popped"
    /\ UNCHANGED <<ver, pIn, buildVars>>

\* V2: node = _deepcopy(template); _populate_form_data_from_row(node, row, hdr_idx)
PopulateV2 ==
    /\ pc = "pop" /\ ver = "V2"
    /\ pOut' = Some(_populate_form_data_from_row(
                        pIn.proto, pIn.row,
                        _index_by_normalized([i \in 1..Len(pIn.row) |-> pIn.row[i][1]]),
                        None))
    /\ pc' = "popped"
    /\ UNCHANGED <<ver, pIn, buildVars>>

NextPop == PopulateV1 \/ PopulateV2

SpecPop == InitPop /\ [][NextPop]_vars

(***************************************************************************)
(* Reading the output                                                      *)
(***************************************************************************)
\* the nodes held by the child_forms of a node the builders fill
Children(n) == {heap[n].child_forms[i][2] : i \in 1..Len(heap[n].child_forms)}

ChildrenOfKind(n, kind) == {c \in Children(n) : src[c].kind = kind}

NodesOfKind(kind) == {n \in 1..Len(heap) : src[n].kind = kind}

RowRefid(row) == DictGetOr(row, sRefid, EmptyStr)

RowSpdId(row) == DictGetOr(row, sSpdId, EmptyStr)

RowSafetyId(row) == DictGetOr(row, sSafetyId, EmptyStr)

Triple(row) == <<RowRefid(row), RowSpdId(row), RowSafetyId(row)>>

\* the positions of the rows that carry the pair (refid, spd_id)
RowsOfPair(rows, refid, spd_id) ==
    {i \in 1..Len(rows) : RowRefid(rows[i]) = refid /\ RowSpdId(rows[i]) = spd_id}

RowsOfTriple(rows, t) == {i \in 1..Len(rows) : Triple(rows[i]) = t}

(***************************************************************************)
(* C1                                                                      *)
(***************************************************************************)
\* every all-digit key of the template, at any depth, as a string
RECURSIVE DigitKeysOf(_)
DigitKeysOf(forms) ==
    IF Len(forms) = 0 THEN {}
    ELSE (IF IsDigit(forms[1][1]) THEN {forms[1][1]} ELSE {})
         \cup DigitKeysOf(forms[1][2].child_forms)
         \cup DigitKeysOf(Tail(forms))

\* C1: within one build run every generated identifier differs from every
\* other generated identifier and from every all-digit key of the template
C1_IdsFresh ==
    /\ \A i, j \in 1..Len(ids) : i # j => ids[i] # ids[j]
    /\ \A i \in 1..Len(ids) : ids[i] \notin DigitKeysOf(template_obj.root.data_sets)

(***************************************************************************)
(* C2                                                                      *)
(***************************************************************************)
SpdIdsOfRefid(refid) ==
    {RowSpdId(csv.spd.rows[i]) :
        i \in {k \in 1..Len(csv.spd.rows) : RowRefid(csv.spd.rows[k]) = refid}}

\* C2: in the returned records, the Extraction node of every refid has as many
\* SPD nodes as there are distinct spd_id values among the SPD rows of the refid
C2_OneSpdPerSpdId ==
    pc = "done" =>
        \A i \in 1..Len(out) :
            LET ext == out[i].data_sets[1][2] IN
            Cardinality(ChildrenOfKind(ext, "spd")) = Cardinality(SpdIdsOfRefid(heap[ext].key))

(***************************************************************************)
(* C3                                                                      *)
(***************************************************************************)
\* C3: every Harms node lies under a Safety node built from a row with the same
\* (refid, spd_id, safety_id) as the Harms row; one Safety row with two Harms
\* rows of its triple gives a Safety node with exactly two Harms children
C3_HarmsUnderOwnTriple ==
    /\ \A n \in NodesOfKind("safety") :
          \A h \in Children(n) : Triple(src[h].row) = Triple(src[n].row)
    /\ (pc = "done" /\ protos.harms # None) =>
          \A n \in NodesOfKind("safety") :
              (/\ Cardinality(RowsOfTriple(csv.safety.rows, Triple(src[n].row))) = 1
               /\ Cardinality(RowsOfTriple(csv.harms.rows, Triple(src[n].row))) = 2)
              => Cardinality(Children(n)) = 2

RECURSIVE FirstSeen(_, _)
FirstSeen(rows, seen) ==
    IF Len(rows) = 0 THEN seen
    ELSE FirstSeen(Tail(rows),
                   IF RowRefid(rows[1]) \in Range(seen) THEN seen
                   ELSE Append(seen, RowRefid(rows[1])))

\* C5: the build returns one record per distinct refid of the SPD rows, in the
\* order of first appearance, each with exactly one Extraction node
C5_OneRecordPerRefid ==
    pc = "done" =>
        /\ \A i \in 1..Len(out) :
              /\ Len(out[i].data_sets) = 1
              /\ src[out[i].data_sets[1][2]].kind = "extraction"
        /\ [i \in 1..Len(out) |-> heap[out[i].data_sets[1][2]].key]
              = FirstSeen(csv.spd.rows, <<>>)

(***************************************************************************)
(* C6                                                                      *)
(***************************************************************************)
KeyOf(row, cols) == [i \in 1..Len(cols) |-> DictGetOr(row, cols[i], EmptyStr)]

\* every row is in the group of its own key, each group holds exactly the rows
\* of its key in their original order, and no key has two groups
GroupedRight(rows, groups, cols) ==
    /\ \A i, j \in 1..Len(groups) : i # j => groups[i][1] # groups[j][1]
    /\ \A g \in 1..Len(groups) :
          groups[g][2] = SelectSeq(rows, LAMBDA r : KeyOf(r, cols) = groups[g][1])
    /\ \A i \in 1..Len(rows) :
          \E g \in 1..Len(groups) : groups[g][1] = KeyOf(rows[i], cols)

\* the linkage columns each program groups the Harms rows by
HarmsCols == IF ver = "V1" THEN <<sSafetyId>> ELSE <<sRefid, sSpdId, sSafetyId>>

\* C6: once the rows are grouped, every row of every supplied CSV is in exactly
\* one group, the one of its own linkage values, and the groups keep row order
C6_GroupingComplete ==
    pc \in {"build", "done"} =>
        /\ GroupedRight(csv.spd.rows, grp.spd, <<sRefid>>)
        /\ GroupedRight(csv.safety.rows, grp.safety, <<sRefid, sSpdId>>)
        /\ GroupedRight(csv.perf.rows, grp.perf, <<sRefid, sSpdId>>)
        /\ GroupedRight(csv.harms.rows, grp.harms, HarmsCols)
        /\ GroupedRight(csv.follow.rows, grp.follow, <<sRefid, sSpdId>>)

(***************************************************************************)
(* C7, C8, C9: the populated form                                          *)
(***************************************************************************)
\* C7: in a populated form every Radio or Checkbox entry has an empty text and
\* every entry of another type has an empty answer
C7_ResponseExclusive ==
    pc = "popped" =>
        \A i \in 1..Len(pOut[1].data) :
            LET e == pOut[1].data[i] IN
            /\ e.type \in {sRadio, sCheckbox} => RespText(e) = EmptyStr
            /\ e.type \notin {sRadio, sCheckbox} => RespAnswer(e) = EmptyStr

\* the row has no column for the question, as the program at hand matches them
NoColumnFor(question, row) ==
    IF ver = "V1" THEN ~DictHas(row, question)
    ELSE \A i \in 1..Len(row) : NormalizeText(row[i][1]) # NormalizeText(question)

\* C8: a prototype question without a matching column is present in the
\* populated form, and its entries have an empty text and an empty answer
C8_UnmatchedBlank ==
    pc = "popped" =>
        \A i \in 1..Len(pIn.proto.data) :
            LET q == pIn.proto.data[i].question IN
            NoColumnFor(q, pIn.row) =>
                /\ \E k \in 1..Len(pOut[1].data) : pOut[1].data[k].question = q
                /\ \A k \in 1..Len(pOut[1].data) :
                      pOut[1].data[k].question = q =>
                          /\ RespText(pOut[1].data[k]) = EmptyStr
                          /\ RespAnswer(pOut[1].data[k]) = EmptyStr

\* the non-empty trimmed pieces of val between commas and semicolons
RECURSIVE PiecesAcc(_, _)
PiecesAcc(val, cur) ==
    IF Len(val) = 0 THEN <<Strip(cur)>>
    ELSE IF val[1] \in {",", ";"} THEN <<Strip(cur)>> \o PiecesAcc(Tail(val), <<>>)
    ELSE PiecesAcc(Tail(val), Append(cur, val[1]))

ItemsOf(val) == SelectSeq(PiecesAcc(val, <<>>), LAMBDA x : x # EmptyStr)

\* the answers of the entries of a form that carry the question, in order
AnswersFor(form, question) ==
    LET es == SelectSeq(form.data, LAMBDA e : e.question = question)
    IN  [k \in 1..Len(es) |-> RespAnswer(es[k])]

\* C9: for the question "Associated CERs" the populated form has one entry per
\* item of the row's value, with the item as answer, and one entry with an
\* empty answer when the value has no item
C9_CersExploded ==
    (/\ pc = "popped"
     /\ \E i \in 1..Len(pIn.proto.data) : pIn.proto.data[i].question = sAssociatedCERs
     /\ DictHas(pIn.row, sAssociatedCERs)) =>
        LET items == ItemsOf(DictGet(pIn.row, sAssociatedCERs)) IN
        AnswersFor(pOut[1], sAssociatedCERs) = IF Len(items) = 0 THEN <<EmptyStr>> ELSE items

(***************************************************************************)
(* C10                                                                     *)
(***************************************************************************)
\* the CSV of the sub-form is supplied and has a row of a built parent, and
\* the template gave no prototype for the sub-form
MissingProtoFor(kind) ==
    /\ pc \in {"build", "done", "error"}
    /\ protos.extraction # None
    /\ protos[kind] = None
    /\ csv[kind].supplied
    /\ \E i \in 1..Len(csv[kind].rows) :
          IF kind = "harms"
          THEN \E n \in NodesOfKind("safety") : Triple(src[n].row) = Triple(csv[kind].rows[i])
          ELSE \E n \in NodesOfKind("spd") :
                  /\ RowRefid(src[n].row) = RowRefid(csv[kind].rows[i])
                  /\ RowSpdId(src[n].row) = RowSpdId(csv[kind].rows[i])

SubForms == {"safety", "perf", "harms"}

RaisesOnInput ==
    IF ver = "V1"
    THEN \/ V1TemplateError(template_obj) # ""
         \/ V1RequireRaises(csv)
         \/ TemplateForms(template_obj).spd = None
    ELSE \/ V2TemplateError(template_obj) # ""
         \/ V2GroupingRaises(csv)
         \/ sSpdId \notin Range(csv.spd.headers)
         \/ \E g \in 1..Len(V2Grouping(csv).spd) : SortRaises(V2Grouping(csv).spd[g][2])
         \/ (csv.safety.supplied /\ sSafetyId \notin Range(csv.safety.headers))

LinkCols(kind) ==
    CASE kind = "harms"  -> {sSafetyId}
      [] kind = "safety" -> {sRefid, sSpdId, sSafetyId}
      [] OTHER           -> {sRefid, sSpdId}

\* a supplied CSV whose header lacks one of its linkage columns
LacksColumn(kind) ==
    csv[kind].supplied /\ ~(LinkCols(kind) \subseteq Range(csv[kind].headers))

\* the messages of the errors raised for a missing column
MissingColumnErrors ==
    {"CSV missing column(s)", "Required column missing in CSV.",
     "SPD CSV must contain 'spd_id' column.", "Safety.csv must contain 'safety_id' column."}

\* C11: a build whose supplied CSV lacks a required linkage column does not
\* return, and an error for a missing column is raised only for a CSV that
\* was supplied and lacks a column
C11_MissingColumnFails ==
    /\ pc = "done" => \A kind \in CsvKinds : ~LacksColumn(kind)
    /\ (pc = "error" /\ err \in MissingColumnErrors) =>
           \E kind \in CsvKinds :
               csv[kind].supplied /\ ~({sRefid, sSpdId, sSafetyId} \subseteq Range(csv[kind].headers))

(***************************************************************************)
(* C12                                                                     *)
(***************************************************************************)
\* the template has no node the program takes as the Extraction prototype, or
\* no child of it the program takes as the SPD prototype
LacksRequiredProto ==
    /\ template_obj.shape \in {"list", "dict"}
    /\ IF ver = "V1"
       THEN \/ Len(template_obj.root.data_sets) = 0
            \/ TemplateForms(template_obj).spd = None
       ELSE \/ _find_form_id_by_name(template_obj.root.data_sets, {tExtraction}) = None
            \/ _find_form_id_by_name(
                   DictGet(template_obj.root.data_sets,
                           _find_form_id_by_name(template_obj.root.data_sets,
                                                 {tExtraction})[1]).child_forms,
                   {tStudy, tDemographics}) = None

\* C12: a build whose template lacks the Extraction or the SPD prototype does
\* not return, whatever the CSVs hold
C12_MissingRequiredProtoFails == LacksRequiredProto => pc # "done"

(***************************************************************************)
(* C13                                                                     *)
(***************************************************************************)
\* the errors raised while the template is loaded
TemplateErrors ==
    {"Unexpected template format", "Template does not contain data_sets",
     "Template must be a JSON array with at least 1 record.",
     "Template missing 'data_sets' dictionary with at least one dataset.",
     "Could not find an 'Extraction' dataset in template",
     "Could not find a 'Study and Patient Demographics' form under Extraction"}

\* the prototypes the program extracts from the record given as a one-element array
ProtosOfRecord ==
    LET as_list == [template_obj EXCEPT !.shape = "list"]
    IN  IF ver = "V1" THEN TemplateForms(as_list) ELSE V2Templates(as_list)

\* C13: a record with a non-empty data_sets and the required prototypes,
\* given as a single object or as a one-element array, is loaded without
\* error, and both shapes yield the same prototypes
C13_BothShapesAccepted ==
    (/\ pc # "load"
     /\ template_obj.shape \in {"list", "dict"}
     /\ Len(template_obj.root.data_sets) > 0
     /\ ~LacksRequiredProto)
    => /\ ~(pc = "error" /\ err \in TemplateErrors)
       /\ protos = ProtosOfRecord

(***************************************************************************)
(* C14                                                                     *)
(***************************************************************************)
\* the nodes held by a record's data_sets
DataSetNodes(rec) == {rec.data_sets[i][2] : i \in 1..Len(rec.data_sets)}

\* the nodes that have been inserted into a child_forms or a data_sets, and
\* are still held there
AttachedNodes ==
    UNION {Children(p) : p \in 1..Len(heap)}
    \cup (IF root = None THEN {} ELSE DataSetNodes(root[1]))
    \cup UNION {DataSetNodes(out[j]) : j \in 1..Len(out)}

\* C14: a node that is attached stays attached in every later step of the
\* run, and none of its fields, child_forms included, changes
C14_AttachedFrozen ==
    [][\A n \in AttachedNodes : n \in AttachedNodes' /\ heap'[n] = heap[n]]_vars

(***************************************************************************)
(* C15                                                                     *)
(***************************************************************************)
\* the prototypes as the program finds them in the template it was given
DiscoveredProtos ==
    IF ver = "V1" THEN TemplateForms(template_obj) ELSE V2Templates(template_obj)

ClonedNodes == {n \in 1..Len(heap) : protos[src[n].kind] # None}

\* C16: every node cloned from a prototype has the level and the is_subform
\* of that prototype
C16_LevelsCopied ==
    \A n \in ClonedNodes :
        /\ heap[n].level = protos[src[n].kind][1].level
        /\ heap[n].is_subform = protos[src[n].kind][1].is_subform

\* the build has returned clones of all six prototypes, at the levels 0 to 3
C16_Witness ==
    /\ pc = "done"
    /\ \A kind \in {"extraction", "spd", "safety", "perf", "harms", "followup"} :
           \E n \in ClonedNodes : src[n].kind = kind
    /\ {heap[n].level : n \in ClonedNodes} = 0..3

(***************************************************************************)
(* C17                                                                     *)
(***************************************************************************)
\* C17: every node a build produces carries the constant attribution string,
\* whatever user values the template's nodes hold
C17_ConstantUser == \A n \in 1..Len(heap) : heap[n].user = USER_NAME

(***************************************************************************)
(* C18                                                                     *)
(***************************************************************************)
\* the spd_id of the row the i-th child of node e was built from
ChildSpdId(e, i) == RowSpdId(src[heap[e].child_forms[i][2]].row)

\* the SPD nodes under every Extraction node of V2 stand in ascending numeric
\* order of the spd_id of their rows, where both are all digits
SpdAscending ==
    \A e \in NodesOfKind("extraction") :
        \A i, j \in 1..Len(heap[e].child_forms) :
            (i < j /\ IsDigit(ChildSpdId(e, i)) /\ IsDigit(ChildSpdId(e, j)))
            => IntOf(ChildSpdId(e, i)) <= IntOf(ChildSpdId(e, j))

\* C18: in build_from_files the SPD nodes of a refid are attached in ascending
\* numeric order of spd_id, and putting the rows in order never raises,
\* whatever spd_id values the rows of the refid mix
C18_SpdOrdered ==
    ver = "V2" =>
        /\ SpdAscending
        /\ ~(pc = "error" /\
             err = "TypeError: '<' not supported between instances of 'str' and 'int'")

(***************************************************************************)
(* C19                                                                     *)
(***************************************************************************)
\* the question texts and types of a data sequence, in order
Questions(data) == [i \in 1..Len(data) |-> <<data[i].question, data[i].type>>]

\* C19: a form populated from a prototype without an "Associated CERs"
\* question has as many data entries as the prototype, with the same question
\* texts and types in the same order
C19_QuestionsKept ==
    (/\ pc = "popped"
     /\ \A i \in 1..Len(pIn.proto.data) : pIn.proto.data[i].question # sAssociatedCERs)
    => Questions(pOut[1].data) = Questions(pIn.proto.data)

====
